---- MODULE Spec2Model ----
(***************************************************************************)
(* Model of the audio-2-features worker (src/src/index.ts): the upload     *)
(* handler, the extract-from-text handler, the two AI stages               *)
(* (processAudioWithAI, extractFeatureRequests), the persistence filter    *)
(* and the D1 tables the handlers write.                                   *)
(*                                                                         *)
(* Strings that the code inspects (titles, MIME types) are kept as TLA+    *)
(* strings in the state and looked up in Chars when the code looks at      *)
(* their characters.  A model response text is a sequence of tokens: the   *)
(* two brace tokens, a free-text token that holds no brace, and the tokens *)
(* of the JSON members the prompt asks for.                                *)
(***************************************************************************)
EXTENDS Integers, Sequences, FiniteSets, TLC

\* ------------------------------------------------------------------------
\* Bounds
\* ------------------------------------------------------------------------

\* number of POST requests one run serves
MaxRequests == 1

\* ------------------------------------------------------------------------
\* JavaScript values
\* ------------------------------------------------------------------------

\* a property that is not there (undefined)
Absent == "<absent>"

\* SQL NULL / JavaScript null
Null == "<null>"

\* x || ..., req.title && ...: undefined, null and "" are falsy
Truthy(x) == x \notin {Absent, Null, ""}

\* the characters of every string whose characters the code looks at
Chars ==
       "" :> <<>>
    @@ "Add dark mode" :> <<"A", "d", "d", " ", "d", "a", "r", "k", " ", "m", "o", "d", "e">>
    @@ "Export report" :> <<"E", "x", "p", "o", "r", "t", " ", "r", "e", "p", "o", "r", "t">>
    @@ "Parse Error in export" :> <<"P", "a", "r", "s", "e", " ", "E", "r", "r", "o", "r", " ", "i", "n", " ", "e", "x", "p", "o", "r", "t">>
    @@ "FALLBACK plan" :> <<"F", "A", "L", "L", "B", "A", "C", "K", " ", "p", "l", "a", "n">>
    @@ "Unable to parse AI response" :> <<"U", "n", "a", "b", "l", "e", " ", "t", "o", " ", "p", "a", "r", "s", "e", " ", "A", "I", " ", "r", "e", "s", "p", "o", "n", "s", "e">>
    @@ "[Fallback] Feature extraction failed" :> <<"[", "F", "a", "l", "l", "b", "a", "c", "k", "]", " ", "F", "e", "a", "t", "u", "r", "e", " ", "e", "x", "t", "r", "a", "c", "t", "i", "o", "n", " ", "f", "a", "i", "l", "e", "d">>
    @@ "[Mock] Feature Request Example" :> <<"[", "M", "o", "c", "k", "]", " ", "F", "e", "a", "t", "u", "r", "e", " ", "R", "e", "q", "u", "e", "s", "t", " ", "E", "x", "a", "m", "p", "l", "e">>
    @@ "parse error" :> <<"p", "a", "r", "s", "e", " ", "e", "r", "r", "o", "r">>
    @@ "fallback" :> <<"f", "a", "l", "l", "b", "a", "c", "k">>
    @@ "audio/mpeg" :> <<"a", "u", "d", "i", "o", "/", "m", "p", "e", "g">>
    @@ "video/mp4" :> <<"v", "i", "d", "e", "o", "/", "m", "p", "4">>
    @@ "text/audio/x" :> <<"t", "e", "x", "t", "/", "a", "u", "d", "i", "o", "/", "x">>
    @@ "audio/" :> <<"a", "u", "d", "i", "o", "/">>

UpperToLower ==
    "A" :> "a" @@ "B" :> "b" @@ "C" :> "c" @@ "D" :> "d" @@ "E" :> "e" @@ "F" :> "f"
 @@ "G" :> "g" @@ "H" :> "h" @@ "I" :> "i" @@ "J" :> "j" @@ "K" :> "k" @@ "L" :> "l"
 @@ "M" :> "m" @@ "N" :> "n" @@ "O" :> "o" @@ "P" :> "p" @@ "Q" :> "q" @@ "R" :> "r"
 @@ "S" :> "s" @@ "T" :> "t" @@ "U" :> "u" @@ "V" :> "v" @@ "W" :> "w" @@ "X" :> "x"
 @@ "Y" :> "y" @@ "Z" :> "z"

\* String.prototype.toLowerCase, on the characters
toLowerCase(cs) ==
    [i \in 1..Len(cs) |-> IF cs[i] \in DOMAIN UpperToLower THEN UpperToLower[cs[i]] ELSE cs[i]]

\* String.prototype.includes, on the characters
includes(cs, sub) ==
    \E i \in 1..(Len(cs) - Len(sub) + 1) : SubSeq(cs, i, i + Len(sub) - 1) = sub

\* String.prototype.startsWith, on the characters
startsWith(cs, pre) ==
    /\ Len(pre) <= Len(cs)
    /\ SubSeq(cs, 1, Len(pre)) = pre

\* ------------------------------------------------------------------------
\* Response text of the text-generation model, as tokens
\* ------------------------------------------------------------------------

LB == [k |-> "{"]
RB == [k |-> "}"]
\* free text that holds neither brace
W == [k |-> "text"]
\* "requests": [   and the closing ]
ReqOpen == [k |-> "requests:["]
ReqClose == [k |-> "]"]
\* "requests": "none"  (a requests member that is not an array)
ReqScalar == [k |-> "requests:scalar"]
\* the members of one request item, between its braces
Fields(r) == [k |-> "fields", rec |-> r]
\* "summary": s
Sum(s) == [k |-> "summary", str |-> s]
\* "error": s
ErrM(s) == [k |-> "error", str |-> s]

\* responseText.match(/\{[\s\S]*\}/): the greedy span from the first "{" to
\* the last "}" after it; <<>> stands for null (every match holds two braces)
FirstLB(text) ==
    IF \E i \in 1..Len(text) : text[i].k = "{"
    THEN CHOOSE i \in 1..Len(text) : text[i].k = "{" /\ \A j \in 1..(i - 1) : text[j].k # "{"
    ELSE 0

LastRB(text) ==
    IF \E i \in 1..Len(text) : text[i].k = "}"
    THEN CHOOSE i \in 1..Len(text) : text[i].k = "}" /\ \A j \in (i + 1)..Len(text) : text[j].k # "}"
    ELSE 0

\* a span that stops at the first "}" instead of the last one
jsonMatchFirstClose(text) ==
    LET i == FirstLB(text)
        js == {j \in 1..Len(text) : j > i /\ text[j].k = "}"}
    IN IF i = 0 \/ js = {} THEN <<>>
       ELSE SubSeq(text, i, CHOOSE j \in js : \A j2 \in js : j <= j2)

\* a span that stops at the "}" that closes the first "{"
jsonMatchBalanced(text) ==
    LET i == FirstLB(text)
        Depth(j) == Cardinality({n \in i..j : text[n].k = "{"})
                        - Cardinality({n \in i..j : text[n].k = "}"})
        js == {j \in 1..Len(text) : j > i /\ text[j].k = "}" /\ Depth(j) = 0}
    IN IF i = 0 \/ js = {} THEN <<>>
       ELSE SubSeq(text, i, CHOOSE j \in js : \A j2 \in js : j <= j2)

jsonMatch(text) ==
    LET i == FirstLB(text)
        j == LastRB(text)
    IN IF i = 0 \/ j < i THEN <<>> ELSE SubSeq(text, i, j)

\* a request item none of whose members is there
NoFields ==
    [id |-> Absent, title |-> Absent, description |-> Absent, priority |-> Absent,
     category |-> Absent, confidence |-> Absent, potentialRecommendation |-> Absent]

\* the object {} : no member is there
EmptyObject ==
    [reqKind |-> "absent", requests |-> <<>>, summary |-> Absent, error |-> Absent]

ParseFail == [ok |-> FALSE, val |-> EmptyObject]

\* the items of a requests array, up to its closing bracket:
\* each item is { members } or {}
RECURSIVE ParseItems(_, _)
ParseItems(toks, acc) ==
    IF toks = <<>> THEN [ok |-> FALSE, items |-> <<>>, rest |-> <<>>]
    ELSE IF Head(toks).k = "]" THEN [ok |-> TRUE, items |-> acc, rest |-> Tail(toks)]
    ELSE IF Len(toks) >= 2 /\ toks[1].k = "{" /\ toks[2].k = "}"
         THEN ParseItems(SubSeq(toks, 3, Len(toks)), Append(acc, NoFields))
    ELSE IF Len(toks) >= 3 /\ toks[1].k = "{" /\ toks[2].k = "fields" /\ toks[3].k = "}"
         THEN ParseItems(SubSeq(toks, 4, Len(toks)), Append(acc, toks[2].rec))
    ELSE [ok |-> FALSE, items |-> <<>>, rest |-> <<>>]

\* the members of the top-level object; a repeated key keeps its last value,
\* members other than requests, summary and error are decoded and not used
RECURSIVE ParseMembers(_, _)
ParseMembers(toks, acc) ==
    IF toks = <<>> THEN [ok |-> TRUE, val |-> acc]
    ELSE LET t == Head(toks) IN
         CASE t.k = "summary" -> ParseMembers(Tail(toks), [acc EXCEPT !.summary = t.str])
           [] t.k = "error" -> ParseMembers(Tail(toks), [acc EXCEPT !.error = t.str])
           [] t.k = "fields" -> ParseMembers(Tail(toks), acc)
           [] t.k = "requests:scalar" ->
                ParseMembers(Tail(toks), [acc EXCEPT !.reqKind = "nonarray", !.requests = <<>>])
           [] t.k = "requests:[" ->
                LET r == ParseItems(Tail(toks), <<>>) IN
                IF r.ok
                THEN ParseMembers(r.rest, [acc EXCEPT !.reqKind = "array", !.requests = r.items])
                ELSE ParseFail
           [] OTHER -> ParseFail

\* JSON.parse on a span that starts with "{": ok is FALSE where it throws
JSONparse(slice) ==
    IF Len(slice) >= 2 /\ slice[1].k = "{" /\ slice[Len(slice)].k = "}"
    THEN ParseMembers(SubSeq(slice, 2, Len(slice) - 1), EmptyObject)
    ELSE ParseFail

\* ------------------------------------------------------------------------
\* extractFeatureRequests
\* ------------------------------------------------------------------------

WhisperModel == "@cf/openai/whisper-tiny-en"
MistralModel == "@cf/mistral/mistral-7b-instruct-v0.2-lora"

\* the detail without the message of the error
ErrorDetailAlwaysUnknown(err) == "Unknown error"

\* err instanceof Error ? err.message : "Unknown error"

ErrorDetail(err) == IF err.isError THEN err.message ELSE "Unknown error"

\* new Error("AI binding not available")
NoBindingError == [isError |-> TRUE, message |-> "AI binding not available"]

\* result.response || result.text || ""
ResponseText(result) ==
    IF result.response # <<>> THEN result.response
    ELSE IF result.text # <<>> THEN result.text
    ELSE <<>>

ParseErrorRecord ==
    [id |-> "parse-error-1",
     title |-> "Unable to parse AI response",
     description |-> "The AI model returned a response that couldn't be parsed as structured feature requests.",
     priority |-> "low",
     category |-> "improvement",
     confidence |-> "0.1",
     potentialRecommendation |-> "Check AI model configuration; Implement better error handling"]

\* the object substituted in the inner catch
ParseErrorBody ==
    [reqKind |-> "array", requests |-> <<ParseErrorRecord>>,
     summary |-> "Error in processing AI response", error |-> Absent]

\* the parse without its catch: whatever was decoded, or nothing
parsedResultNoCatch(result) ==
    IF result.isNull THEN EmptyObject
    ELSE JSONparse(jsonMatch(ResponseText(result))).val

\* the inner try/catch: reading a property of a null result, a text with no
\* brace span and a span JSON.parse rejects all end in the catch

parsedResult(result) ==
    IF result.isNull THEN ParseErrorBody
    ELSE LET m == jsonMatch(ResponseText(result)) IN
         IF m = <<>> THEN ParseErrorBody
         ELSE IF JSONparse(m).ok THEN JSONparse(m).val ELSE ParseErrorBody

\* which branch of the inner try/catch produced parsedResult(result)
ParsePath(result) ==
    IF result.isNull THEN "parse-error"
    ELSE LET m == jsonMatch(ResponseText(result)) IN
         IF m # <<>> /\ JSONparse(m).ok THEN "decoded" ELSE "parse-error"

\* { ...parsedResult, extractionTimeMs, model, originalTranscription }
\* (extractionTimeMs is a wall-clock reading and is left out)
ExtractionReturn(parsed, transcription) ==
    [reqKind |-> parsed.reqKind, requests |-> parsed.requests,
     summary |-> parsed.summary, error |-> parsed.error,
     model |-> MistralModel, originalTranscription |-> transcription]

FallbackRecord ==
    [id |-> "fallback-1",
     title |-> "[Fallback] Feature extraction failed",
     description |-> "The AI model failed to process the transcription. This could be due to network issues, model unavailability, or configuration problems.",
     priority |-> "medium",
     category |-> "improvement",
     confidence |-> "0.3",
     potentialRecommendation |-> "Verify Cloudflare Workers AI configuration; Check network connectivity and model availability"]

\* the value returned from the outer catch
ExtractionFallback(err) ==
    [reqKind |-> "array", requests |-> <<FallbackRecord>>,
     summary |-> "Feature extraction failed - using fallback response",
     error |-> ErrorDetail(err),
     model |-> MistralModel, originalTranscription |-> Absent]

\* no extraction result yet
NoExtraction ==
    [reqKind |-> "absent", requests |-> <<>>, summary |-> Absent, error |-> Absent,
     model |-> Absent, originalTranscription |-> Absent]

\* ------------------------------------------------------------------------
\* processAudioWithAI
\* ------------------------------------------------------------------------

\* result?.text || result?.transcription || ""
TranscriptionText(result) ==
    IF Truthy(result.text) THEN result.text
    ELSE IF Truthy(result.transcription) THEN result.transcription
    ELSE ""

MockRecord ==
    [id |-> "mock-1",
     title |-> "[Mock] Feature Request Example",
     description |-> "This is a mock feature request extracted from the transcription.",
     priority |-> "medium",
     category |-> "enhancement",
     confidence |-> "0.8",
     potentialRecommendation |-> "Implement user feedback collection system; Add feature request tracking dashboard"]

MockTranscription ==
    "[mock] This is a mock transcription. Workers AI call failed or is not configured yet."

\* the value returned from the catch of processAudioWithAI
MockAiFeatures(err) ==
    [defined |-> TRUE,
     transcription |-> MockTranscription,
     model |-> WhisperModel,
     featureRequests |->
        [reqKind |-> "array", requests |-> <<MockRecord>>, summary |-> Absent,
         error |-> ErrorDetail(err),
         model |-> MistralModel, originalTranscription |-> Absent],
     error |-> ErrorDetail(err)]

\* the try of processAudioWithAI returning the mock requests
AiFeaturesMockRequests(transcriptionText, featureRequests) ==
    [defined |-> TRUE,
     transcription |-> transcriptionText,
     model |-> WhisperModel,
     featureRequests |-> MockAiFeatures(NoBindingError).featureRequests,
     error |-> Absent]

\* the value returned from the try of processAudioWithAI
AiFeatures(transcriptionText, featureRequests) ==
    [defined |-> TRUE,
     transcription |-> transcriptionText,
     model |-> WhisperModel,
     featureRequests |-> featureRequests,
     error |-> Absent]

NoAiFeatures ==
    [defined |-> FALSE, transcription |-> Absent, model |-> Absent,
     featureRequests |-> NoExtraction, error |-> Absent]

\* ------------------------------------------------------------------------
\* Persistence filter and the rows it writes
\* ------------------------------------------------------------------------

\* the filter without its 'fallback' test
isActionableNoFallbackTest(req) ==
    /\ Truthy(req.title)
    /\ ~includes(toLowerCase(Chars[req.title]), Chars["parse error"])

\* the filter looking for 'parse error' in the title as written
isActionableCaseSensitive(req) ==
    /\ Truthy(req.title)
    /\ ~includes(Chars[req.title], Chars["parse error"])
    /\ ~includes(toLowerCase(Chars[req.title]), Chars["fallback"])

\* req.title && !lower.includes('parse error') && !lower.includes('fallback')
isActionable(req) ==
    /\ Truthy(req.title)
    /\ ~includes(toLowerCase(Chars[req.title]), Chars["parse error"])
    /\ ~includes(toLowerCase(Chars[req.title]), Chars["fallback"])

RECURSIVE filter(_)
filter(requests) ==
    IF requests = <<>> THEN <<>>
    ELSE IF isActionable(Head(requests))
         THEN <<Head(requests)>> \o filter(Tail(requests))
         ELSE filter(Tail(requests))

\* aiFeatures.featureRequests.summary || null
SummaryOrNull(fr) == IF Truthy(fr.summary) THEN fr.summary ELSE Null

\* the values bound in the insert of one actionable record; the records
\* modelled carry potentialRecommendation as a string or not at all
\* (srcTitle is history: the title of the record the row was written from)
FeatureRow(uuid, fileId, req, summary) ==
    [id |-> uuid,
     audio_file_id |-> fileId,
     title |-> IF Truthy(req.title) THEN req.title ELSE "",
     description |-> IF Truthy(req.description) THEN req.description ELSE "",
     priority |-> IF Truthy(req.priority) THEN req.priority ELSE Null,
     category |-> IF Truthy(req.category) THEN req.category ELSE Null,
     confidence |-> IF req.confidence \in {Absent, Null} THEN Null ELSE req.confidence,
     potential_recommendation |->
        IF req.potentialRecommendation \in {Absent, Null} THEN Null
        ELSE req.potentialRecommendation,
     summary |-> summary,
     srcTitle |-> req.title]

\* the values of the placeholder insert
PlaceholderRow(uuid, fileId, summary) ==
    [id |-> uuid, audio_file_id |-> fileId,
     title |-> Null, description |-> Null, priority |-> Null, category |-> Null,
     confidence |-> Null, potential_recommendation |-> Null,
     summary |-> summary, srcTitle |-> "<placeholder>"]

\* ------------------------------------------------------------------------
\* Inputs
\* ------------------------------------------------------------------------

\* const maxSize = 25 * 1024 * 1024
maxSize == 25 * 1024 * 1024

NoFile == [type |-> "", size |-> 0]

\* what c.req.formData() and formData.get("audio") give:
\* a body that is no form data, a form with no audio field, a File
UploadForms ==
    {[malformed |-> TRUE, hasAudio |-> FALSE, file |-> NoFile],
     [malformed |-> FALSE, hasAudio |-> FALSE, file |-> NoFile]}
    \cup {[malformed |-> FALSE, hasAudio |-> TRUE, file |-> f] :
            f \in {[type |-> "audio/mpeg", size |-> maxSize],
                   [type |-> "audio/mpeg", size |-> maxSize + 1],
                   [type |-> "video/mp4", size |-> 1024],
                   [type |-> "text/audio/x", size |-> 1024]}}

\* what c.req.json() and body.transcription give
ExtractBodies ==
    {[malformed |-> TRUE, transcription |-> Absent],
     [malformed |-> FALSE, transcription |-> Absent],
     [malformed |-> FALSE, transcription |-> ""],
     [malformed |-> FALSE, transcription |-> "add dark mode"]}

\* values a failing ai.run throws
ThrownErrors ==
    {[isError |-> TRUE, message |-> "AI request failed"],
     [isError |-> TRUE, message |-> ""],
     [isError |-> FALSE, message |-> Absent]}

NoError == [isError |-> FALSE, message |-> Absent]

\* objects the speech-to-text model returns
WhisperResults ==
    {[text |-> "add dark mode", transcription |-> Absent],
     [text |-> Absent, transcription |-> Absent]}

\* request items a model writes
RecDark ==
    [id |-> "r1", title |-> "Add dark mode", description |-> "d", priority |-> "low",
     category |-> "enhancement", confidence |-> "0.9", potentialRecommendation |-> "p"]
RecExport ==
    [id |-> "r2", title |-> "Export report", description |-> Absent, priority |-> "high",
     category |-> "new-feature", confidence |-> Absent, potentialRecommendation |-> Absent]
RecEmptyTitle == [RecDark EXCEPT !.id = "r3", !.title = ""]
RecParseError == [RecDark EXCEPT !.id = "r4", !.title = "Parse Error in export"]
RecFallback == [RecDark EXCEPT !.id = "r5", !.title = "FALLBACK plan"]

Item(r) == <<LB, Fields(r), RB>>

\* {"requests":[dark],"summary":"s"}
ObjOne == <<LB, ReqOpen>> \o Item(RecDark) \o <<ReqClose, Sum("s"), RB>>
\* actionable and non-actionable items mixed
ObjMixed ==
    <<LB, ReqOpen>> \o Item(RecEmptyTitle) \o Item(RecDark) \o Item(RecParseError)
        \o Item(RecExport) \o Item(RecFallback) \o <<LB, RB>> \o <<ReqClose, Sum("two"), RB>>
\* {"requests":[],"summary":"nothing asked"}
ObjNoRequests == <<LB, ReqOpen, ReqClose, Sum("nothing asked"), RB>>
\* only non-actionable items, no summary
ObjNoneActionable ==
    <<LB, ReqOpen>> \o Item(RecParseError) \o Item(RecEmptyTitle) \o <<ReqClose, RB>>
\* {}
ObjEmpty == <<LB, RB>>
\* {"requests":"none","summary":"s"}
ObjScalar == <<LB, ReqScalar, Sum("s"), RB>>
\* {"requests":[dark],"summary":"s","error":"model note"}
ObjWithError == <<LB, ReqOpen>> \o Item(RecDark) \o <<ReqClose, Sum("s"), ErrM("model note"), RB>>

\* response texts of the text-generation model
ResponseTexts ==
    {ObjOne, ObjMixed, ObjNoRequests, ObjNoneActionable, ObjEmpty, ObjScalar, ObjWithError,
     <<W>> \o ObjOne \o <<W>>,
     ObjOne \o <<W, RB>>,
     <<LB, W>> \o ObjOne,
     ObjOne \o <<W>> \o ObjNoRequests,
     <<W>>,
     <<LB, W, RB>>,
     <<RB, W, LB>>,
     <<LB, ReqOpen>> \o Item(RecDark) \o <<RB>>,
     Item(RecDark)}

\* objects the text-generation call returns
TextGenResults ==
    {[isNull |-> FALSE, response |-> t, text |-> <<>>] : t \in ResponseTexts}
    \cup {[isNull |-> FALSE, response |-> <<>>, text |-> ObjOne],
          [isNull |-> FALSE, response |-> <<>>, text |-> <<>>],
          [isNull |-> TRUE, response |-> <<>>, text |-> <<>>]}

\* ------------------------------------------------------------------------
\* State
\* ------------------------------------------------------------------------

VARIABLES
    aiPresent,         \* c.env.AI is there
    dbPresent,         \* c.env.audio2features is there and has prepare
    r2Present,         \* c.env.AUDIO_BUCKET is there and has put
    audioTable,        \* the table audio_files exists
    frTable,           \* the table feature_requests exists
    audio_files,       \* the rows of audio_files
    feature_requests,  \* the rows of feature_requests, in insertion order
    bucket,            \* the keys put into the object store
    uuid,              \* the number of identifiers crypto.randomUUID gave out
    served,            \* the number of POST and of GET requests received
    h                  \* the handler invocations, one per slot

vars == <<aiPresent, dbPresent, r2Present, audioTable, frTable, audio_files,
          feature_requests, bucket, uuid, served, h>>

env == <<aiPresent, dbPresent, r2Present>>
store == <<audioTable, frTable, audio_files, feature_requests, bucket>>

Slots == {1, 2}

NoAudioInfo == [defined |-> FALSE, fileId |-> Absent, r2Key |-> Absent,
                fileType |-> Absent, fileSize |-> 0]

NoResponse ==
    [status |-> 0, success |-> FALSE, error |-> Absent, details |-> Absent,
     audioInfo |-> NoAudioInfo, aiFeatures |-> NoAiFeatures,
     featureRequests |-> NoExtraction, results |-> <<>>, message |-> Absent]

NoCalls == [r2 |-> 0, db |-> 0, stt |-> 0, tg |-> 0]

NoForm == [malformed |-> FALSE, hasAudio |-> FALSE, file |-> NoFile]
NoResult == [isNull |-> TRUE, response |-> <<>>, text |-> <<>>]

\* a slot with no request.  form, audioId, fileId, r2Stored, d1Inserted,
\* transcriptionText, err, aiFeatures, featureRequests, actionableRequests,
\* idx, summary are the locals of the handler and of the functions it
\* calls; response is what it answered.  The other fields are history:
\* calls counts the calls to each backend, extractCalls the invocations of
\* extractFeatureRequests, sttOutcome and tgOutcome say how the two ai.run
\* calls ended, tgResult is what the text-generation call returned,
\* extracted what extractFeatureRequests returned, path the branch that
\* built the feature requests, storeFaults the statements D1 failed on its
\* own account
Idle ==
    [pc |-> "idle", kind |-> "none", form |-> NoForm, audioId |-> Absent, fileId |-> Absent,
     r2Stored |-> FALSE, d1Inserted |-> FALSE,
     transcriptionText |-> Absent, err |-> NoError,
     aiFeatures |-> NoAiFeatures, featureRequests |-> NoExtraction,
     actionableRequests |-> <<>>, idx |-> 0, summary |-> Absent,
     response |-> NoResponse,
     calls |-> NoCalls, extractCalls |-> 0, sttOutcome |-> "none", tgOutcome |-> "none",
     tgResult |-> NoResult, extracted |-> NoExtraction, path |-> "none",
     storeFaults |-> 0, persistAttempted |-> FALSE,
     inserts |-> <<>>, slice |-> <<>>]

\* crypto.randomUUID(): the n-th identifier
randomUUID(n) == "id-" \o ToString(n)

\* `uploads/${fileId}-${safeName}`
r2KeyOf(fileId) == "uploads/" \o fileId

Init ==
    /\ aiPresent \in BOOLEAN
    /\ dbPresent \in BOOLEAN
    /\ r2Present \in BOOLEAN
    /\ audioTable = FALSE
    /\ frTable = FALSE
    /\ audio_files = {}
    /\ feature_requests = <<>>
    /\ bucket = {}
    /\ uuid = 0
    /\ served = 0
    /\ h = [s \in Slots |-> Idle]

\* requests are served one after the other, in slot 1
Sequential(s) ==
    /\ s = 1
    /\ \A t \in Slots : h[t].pc \in {"idle", "done"}
    /\ served < MaxRequests

\* a failure envelope that also carries success: true
ErrorResponseWithSuccess(status, error, details) ==
    [NoResponse EXCEPT !.status = status, !.success = TRUE, !.error = error, !.details = details]

\* c.json(body, status)
ErrorResponse(status, error, details) ==
    [NoResponse EXCEPT !.status = status, !.error = error, !.details = details]

\* ------------------------------------------------------------------------
\* D1: what the store does with a statement
\* ------------------------------------------------------------------------

\* FOREIGN KEY (audio_file_id) REFERENCES audio_files(id); D1 enforces it
ForeignKeyHolds(row) ==
    /\ audioTable
    /\ \E a \in audio_files : a.id = row.audio_file_id

\* the schema without its FOREIGN KEY clause
FeatureInsertAcceptedNoForeignKey(row) ==
    /\ frTable
    /\ \A i \in 1..Len(feature_requests) : feature_requests[i].id # row.id
    /\ row.audio_file_id # Null
    /\ row.title # Null
    /\ row.description # Null

\* the feature_requests schema: id is the primary key, audio_file_id, title
\* and description are NOT NULL, audio_file_id references audio_files(id)
FeatureInsertAccepted(row) ==
    /\ frTable
    /\ \A i \in 1..Len(feature_requests) : feature_requests[i].id # row.id
    /\ row.audio_file_id # Null
    /\ row.title # Null
    /\ row.description # Null
    /\ ForeignKeyHolds(row)

\* the audio_files schema: id is the primary key, the other columns but
\* r2_key are NOT NULL
AudioInsertAccepted(row) ==
    /\ audioTable
    /\ \A a \in audio_files : a.id # row.id
    /\ row.file_type # Null

\* ------------------------------------------------------------------------
\* POST /upload
\* ------------------------------------------------------------------------

Bump(calls, what) == [calls EXCEPT ![what] = @ + 1]

\* the validation looking for "audio/" anywhere in the type
ValidationStatusTypeIncludes(form) ==
    IF form.malformed THEN 500
    ELSE IF ~form.hasAudio THEN 400
    ELSE IF ~includes(Chars[form.file.type], Chars["audio/"]) THEN 400
    ELSE IF form.file.size > maxSize THEN 400
    ELSE 0

\* the outcome of the validation of lines 12-28: 0 where the file passes

ValidationStatus(form) ==
    IF form.malformed THEN 500
    ELSE IF ~form.hasAudio THEN 400
    ELSE IF ~startsWith(Chars[form.file.type], Chars["audio/"]) THEN 400
    ELSE IF form.file.size > maxSize THEN 400
    ELSE 0

ValidationError(form) ==
    IF form.malformed THEN "Failed to process audio file"
    ELSE IF ~form.hasAudio THEN "No audio file provided"
    ELSE IF ~startsWith(Chars[form.file.type], Chars["audio/"]) THEN "File must be an audio file"
    ELSE "File size must be less than 25MB"

\* the request arrives; formData() is read and the file is validated; a
\* file that passes gets its identifier
ReceiveUpload(s) ==
    /\ Sequential(s)
    /\ \E form \in UploadForms :
        LET me == [Idle EXCEPT !.kind = "upload", !.form = form] IN
        IF ValidationStatus(form) # 0
        THEN /\ h' = [h EXCEPT ![s] = [me EXCEPT
                    !.pc = "done",
                    !.response = ErrorResponse(ValidationStatus(form), ValidationError(form),
                                    IF form.malformed THEN "Could not parse content as FormData." ELSE Absent)]]
             /\ uuid' = uuid
        ELSE /\ h' = [h EXCEPT ![s] = [me EXCEPT !.pc = "r2", !.fileId = randomUUID(uuid + 1)]]
             /\ uuid' = uuid + 1
    /\ served' = served + 1
    /\ UNCHANGED <<env, store>>

\* await r2.put(r2Key, audioBuffer, ...): it stores the object or throws
R2Put(s) ==
    /\ h[s].pc = "r2"
    /\ r2Present
    /\ \E ok \in BOOLEAN :
        /\ h' = [h EXCEPT ![s] = [@ EXCEPT !.pc = "d1_create_audio", !.r2Stored = ok,
                                           !.calls = Bump(@, "r2")]]
        /\ bucket' = IF ok THEN bucket \cup {r2KeyOf(h[s].fileId)} ELSE bucket
    /\ UNCHANGED <<env, audioTable, frTable, audio_files, feature_requests, uuid, served>>

\* no AUDIO_BUCKET binding
R2Absent(s) ==
    /\ h[s].pc = "r2"
    /\ ~r2Present
    /\ h' = [h EXCEPT ![s] = [@ EXCEPT !.pc = "d1_create_audio"]]
    /\ UNCHANGED <<env, store, uuid, served>>

\* no audio2features binding
D1Absent(s) ==
    /\ h[s].pc = "d1_create_audio"
    /\ ~dbPresent
    /\ h' = [h EXCEPT ![s] = [@ EXCEPT !.pc = "stt"]]
    /\ UNCHANGED <<env, store, uuid, served>>

\* CREATE TABLE IF NOT EXISTS audio_files; a throw ends the D1 block
D1CreateAudioFiles(s) ==
    /\ h[s].pc = "d1_create_audio"
    /\ dbPresent
    /\ \E fault \in BOOLEAN :
        IF fault
        THEN /\ h' = [h EXCEPT ![s] = [@ EXCEPT !.pc = "stt", !.calls = Bump(@, "db"),
                                               !.storeFaults = @ + 1]]
             /\ UNCHANGED audioTable
        ELSE /\ h' = [h EXCEPT ![s] = [@ EXCEPT !.pc = "d1_create_fr", !.calls = Bump(@, "db")]]
             /\ audioTable' = TRUE
    /\ UNCHANGED <<env, frTable, audio_files, feature_requests, bucket, uuid, served>>

\* a D1 block that goes on to the AI stage without the audio_files insert
D1EnsureFeatureRequestsTableSkipsInsert(s) ==
    /\ h[s].pc = "d1_create_fr"
    /\ \E fault \in BOOLEAN :
        IF fault
        THEN /\ h' = [h EXCEPT ![s] = [@ EXCEPT !.pc = "stt", !.calls = Bump(@, "db"),
                                               !.storeFaults = @ + 1]]
             /\ UNCHANGED frTable
        ELSE /\ h' = [h EXCEPT ![s] = [@ EXCEPT !.pc = "stt", !.calls = Bump(@, "db")]]
             /\ frTable' = TRUE
    /\ UNCHANGED <<env, audioTable, audio_files, feature_requests, bucket, uuid, served>>

\* await ensureFeatureRequestsTable(db), in the D1 block
D1EnsureFeatureRequestsTable(s) ==
    /\ h[s].pc = "d1_create_fr"
    /\ \E fault \in BOOLEAN :
        IF fault
        THEN /\ h' = [h EXCEPT ![s] = [@ EXCEPT !.pc = "stt", !.calls = Bump(@, "db"),
                                               !.storeFaults = @ + 1]]
             /\ UNCHANGED frTable
        ELSE /\ h' = [h EXCEPT ![s] = [@ EXCEPT !.pc = "d1_insert_audio", !.calls = Bump(@, "db")]]
             /\ frTable' = TRUE
    /\ UNCHANGED <<env, audioTable, audio_files, feature_requests, bucket, uuid, served>>

\* the row bound at lines 81-87
AudioRow(me) ==
    [id |-> me.fileId, file_type |-> me.form.file.type, file_size |-> me.form.file.size,
     r2_key |-> IF me.r2Stored THEN r2KeyOf(me.fileId) ELSE Null]

\* the insert without the catch of the D1 block: a throw reaches the catch
\* of the handler
D1InsertAudioFileRethrows(s) ==
    /\ h[s].pc = "d1_insert_audio"
    /\ \E fault \in BOOLEAN :
        IF ~fault /\ AudioInsertAccepted(AudioRow(h[s]))
        THEN /\ h' = [h EXCEPT ![s] = [@ EXCEPT !.pc = "stt", !.d1Inserted = TRUE,
                                               !.calls = Bump(@, "db")]]
             /\ audio_files' = audio_files \cup {AudioRow(h[s])}
        ELSE /\ h' = [h EXCEPT ![s] = [@ EXCEPT !.pc = "done", !.calls = Bump(@, "db"),
                        !.storeFaults = IF fault THEN @ + 1 ELSE @,
                        !.response = ErrorResponse(500, "Failed to process audio file", "D1_ERROR")]]
             /\ UNCHANGED audio_files
    /\ UNCHANGED <<env, audioTable, frTable, feature_requests, bucket, uuid, served>>

\* INSERT INTO audio_files
D1InsertAudioFile(s) ==
    /\ h[s].pc = "d1_insert_audio"
    /\ \E fault \in BOOLEAN :
        IF ~fault /\ AudioInsertAccepted(AudioRow(h[s]))
        THEN /\ h' = [h EXCEPT ![s] = [@ EXCEPT !.pc = "stt", !.d1Inserted = TRUE,
                                               !.calls = Bump(@, "db")]]
             /\ audio_files' = audio_files \cup {AudioRow(h[s])}
        ELSE /\ h' = [h EXCEPT ![s] = [@ EXCEPT !.pc = "stt", !.calls = Bump(@, "db"),
                                               !.storeFaults = IF fault THEN @ + 1 ELSE @]]
             /\ UNCHANGED audio_files
    /\ UNCHANGED <<env, audioTable, frTable, feature_requests, bucket, uuid, served>>

\* ------------------------------------------------------------------------
\* processAudioWithAI and extractFeatureRequests, as steps of a handler
\* ------------------------------------------------------------------------

\* if (!ai) throw new Error("AI binding not available"), in processAudioWithAI
SttNoBinding(s) ==
    /\ h[s].pc = "stt"
    /\ ~aiPresent
    /\ h' = [h EXCEPT ![s] = [@ EXCEPT !.pc = "mock_sleep", !.err = NoBindingError,
                                        !.sttOutcome = "nobinding"]]
    /\ UNCHANGED <<env, store, uuid, served>>

\* a catch that hands the mock transcription to extractFeatureRequests
SttRunExtractsAfterThrow(s) ==
    /\ h[s].pc = "stt"
    /\ aiPresent
    /\ \/ \E e \in ThrownErrors :
            h' = [h EXCEPT ![s] = [@ EXCEPT !.pc = "textgen", !.err = e,
                                            !.transcriptionText = MockTranscription,
                                            !.extractCalls = @ + 1,
                                            !.sttOutcome = "threw",
                                            !.calls = Bump(@, "stt")]]
       \/ \E result \in WhisperResults :
            h' = [h EXCEPT ![s] = [@ EXCEPT !.pc = "textgen",
                                            !.transcriptionText = TranscriptionText(result),
                                            !.extractCalls = @ + 1,
                                            !.sttOutcome = "returned",
                                            !.calls = Bump(@, "stt")]]
    /\ UNCHANGED <<env, store, uuid, served>>

\* await ai.run(whisper, ...): it throws, or it returns and the text is
\* handed to extractFeatureRequests
SttRun(s) ==
    /\ h[s].pc = "stt"
    /\ aiPresent
    /\ \/ \E e \in ThrownErrors :
            h' = [h EXCEPT ![s] = [@ EXCEPT !.pc = "mock_sleep", !.err = e,
                                            !.sttOutcome = "threw",
                                            !.calls = Bump(@, "stt")]]
       \/ \E result \in WhisperResults :
            h' = [h EXCEPT ![s] = [@ EXCEPT !.pc = "textgen",
                                            !.transcriptionText = TranscriptionText(result),
                                            !.extractCalls = @ + 1,
                                            !.sttOutcome = "returned",
                                            !.calls = Bump(@, "stt")]]
    /\ UNCHANGED <<env, store, uuid, served>>

\* the catch of processAudioWithAI: the 500 ms sleep, then the mock value
MockSleep(s) ==
    /\ h[s].pc = "mock_sleep"
    /\ h' = [h EXCEPT ![s] = [@ EXCEPT !.pc = "persist", !.path = "mock",
                                        !.aiFeatures = MockAiFeatures(h[s].err)]]
    /\ UNCHANGED <<env, store, uuid, served>>

\* what the caller of extractFeatureRequests does with the value fr
AfterExtraction(me, fr) ==
    IF me.kind = "upload"
    THEN [me EXCEPT !.pc = "persist", !.extracted = fr,
                    !.aiFeatures = AiFeatures(me.transcriptionText, fr)]
    ELSE [me EXCEPT !.pc = "respond", !.extracted = fr, !.featureRequests = fr]

\* if (!ai) throw new Error("AI binding not available"), in extractFeatureRequests
ExtractNoBinding(s) ==
    /\ h[s].pc = "textgen"
    /\ ~aiPresent
    /\ h' = [h EXCEPT ![s] = [@ EXCEPT !.pc = "fallback_sleep", !.err = NoBindingError,
                                        !.tgOutcome = "nobinding"]]
    /\ UNCHANGED <<env, store, uuid, served>>

\* the call made a second time after a first throw
TextGenRunRetries(s) ==
    /\ h[s].pc = "textgen"
    /\ aiPresent
    /\ \/ \E e \in ThrownErrors :
            h' = [h EXCEPT ![s] = [@ EXCEPT
                    !.pc = IF h[s].calls.tg = 0 THEN "textgen" ELSE "fallback_sleep",
                    !.err = e, !.tgOutcome = "threw", !.calls = Bump(@, "tg")]]
       \/ \E result \in TextGenResults :
            h' = [h EXCEPT ![s] =
                    AfterExtraction([@ EXCEPT !.calls = Bump(@, "tg"), !.path = ParsePath(result),
                                              !.tgOutcome = "returned", !.tgResult = result,
                                              !.slice = IF result.isNull THEN <<>>
                                                        ELSE jsonMatch(ResponseText(result))],
                                    ExtractionReturn(parsedResult(result), h[s].transcriptionText))]
    /\ UNCHANGED <<env, store, uuid, served>>

\* await ai.run(mistral, ...): it throws, or it returns and the response is parsed
TextGenRun(s) ==
    /\ h[s].pc = "textgen"
    /\ aiPresent
    /\ \/ \E e \in ThrownErrors :
            h' = [h EXCEPT ![s] = [@ EXCEPT !.pc = "fallback_sleep", !.err = e,
                                            !.tgOutcome = "threw",
                                            !.calls = Bump(@, "tg")]]
       \/ \E result \in TextGenResults :
            h' = [h EXCEPT ![s] =
                    AfterExtraction([@ EXCEPT !.calls = Bump(@, "tg"), !.path = ParsePath(result),
                                              !.tgOutcome = "returned", !.tgResult = result,
                                              !.slice = IF result.isNull THEN <<>>
                                                        ELSE jsonMatch(ResponseText(result))],
                                    ExtractionReturn(parsedResult(result), h[s].transcriptionText))]
    /\ UNCHANGED <<env, store, uuid, served>>

\* the outer catch rethrowing: the handler answers from its own catch
FallbackSleepRethrows(s) ==
    /\ h[s].pc = "fallback_sleep"
    /\ h' = [h EXCEPT ![s] = [@ EXCEPT !.pc = "done",
                !.response = ErrorResponse(500, "Failed to process audio file", ErrorDetail(h[s].err))]]
    /\ UNCHANGED <<env, store, uuid, served>>

\* the outer catch of extractFeatureRequests: the 300 ms sleep, then the fallback value
FallbackSleep(s) ==
    /\ h[s].pc = "fallback_sleep"
    /\ h' = [h EXCEPT ![s] = AfterExtraction([@ EXCEPT !.path = "fallback"],
                                             ExtractionFallback(h[s].err))]
    /\ UNCHANGED <<env, store, uuid, served>>

\* ------------------------------------------------------------------------
\* POST /upload: storing the feature requests, and the response
\* ------------------------------------------------------------------------

\* db && typeof db.prepare === "function" && aiFeatures.featureRequests
\*    && Array.isArray(aiFeatures.featureRequests.requests)
PersistGuard(me) ==
    /\ dbPresent
    /\ me.aiFeatures.featureRequests.reqKind = "array"

PersistSkip(s) ==
    /\ h[s].pc = "persist"
    /\ ~PersistGuard(h[s])
    /\ h' = [h EXCEPT ![s] = [@ EXCEPT !.pc = "respond"]]
    /\ UNCHANGED <<env, store, uuid, served>>

\* await ensureFeatureRequestsTable(db), then summary and the filter
PersistEnsureTable(s) ==
    /\ h[s].pc = "persist"
    /\ PersistGuard(h[s])
    /\ \E fault \in BOOLEAN :
        IF fault
        THEN /\ h' = [h EXCEPT ![s] = [@ EXCEPT !.pc = "respond", !.calls = Bump(@, "db"),
                                               !.persistAttempted = TRUE,
                                               !.storeFaults = @ + 1]]
             /\ UNCHANGED frTable
        ELSE LET fr == h[s].aiFeatures.featureRequests
                 actionable == filter(fr.requests)
             IN /\ h' = [h EXCEPT ![s] = [@ EXCEPT
                            !.pc = IF Len(actionable) > 0 THEN "insert" ELSE "placeholder",
                            !.summary = SummaryOrNull(fr),
                            !.actionableRequests = actionable,
                            !.idx = 1,
                            !.persistAttempted = TRUE,
                            !.calls = Bump(@, "db")]]
                /\ frTable' = TRUE
    /\ UNCHANGED <<env, audioTable, audio_files, feature_requests, bucket, uuid, served>>

\* the insert with a file id kept in a variable the requests in flight share
PersistInsertSharedFileId(s) ==
    /\ h[s].pc = "insert"
    /\ \E fault \in BOOLEAN :
        LET me == h[s]
            others == {t \in Slots : t # s /\ h[t].kind = "upload" /\ h[t].fileId # Absent}
            fileId == IF others = {} THEN me.fileId ELSE h[CHOOSE t \in others : TRUE].fileId
            row == FeatureRow(randomUUID(uuid + 1), fileId,
                              me.actionableRequests[me.idx], me.summary)
        IN IF ~fault /\ FeatureInsertAccepted(row)
           THEN /\ feature_requests' = Append(feature_requests, row)
                /\ h' = [h EXCEPT ![s] = [@ EXCEPT
                            !.pc = IF me.idx = Len(me.actionableRequests) THEN "respond" ELSE "insert",
                            !.idx = @ + 1,
                            !.inserts = Append(@, me.idx),
                            !.calls = Bump(@, "db")]]
           ELSE /\ UNCHANGED feature_requests
                /\ h' = [h EXCEPT ![s] = [@ EXCEPT !.pc = "respond", !.calls = Bump(@, "db"),
                                                  !.inserts = Append(@, me.idx),
                                                  !.storeFaults = IF fault THEN @ + 1 ELSE @]]
    /\ uuid' = uuid + 1
    /\ UNCHANGED <<env, audioTable, frTable, audio_files, bucket, served>>

\* one turn of the loop over actionableRequests: the insert of one record
PersistInsert(s) ==
    /\ h[s].pc = "insert"
    /\ \E fault \in BOOLEAN :
        LET me == h[s]
            row == FeatureRow(randomUUID(uuid + 1), me.fileId,
                              me.actionableRequests[me.idx], me.summary)
        IN IF ~fault /\ FeatureInsertAccepted(row)
           THEN /\ feature_requests' = Append(feature_requests, row)
                /\ h' = [h EXCEPT ![s] = [@ EXCEPT
                            !.pc = IF me.idx = Len(me.actionableRequests) THEN "respond" ELSE "insert",
                            !.idx = @ + 1,
                            !.inserts = Append(@, me.idx),
                            !.calls = Bump(@, "db")]]
           ELSE /\ UNCHANGED feature_requests
                /\ h' = [h EXCEPT ![s] = [@ EXCEPT !.pc = "respond", !.calls = Bump(@, "db"),
                                                  !.inserts = Append(@, me.idx),
                                                  !.storeFaults = IF fault THEN @ + 1 ELSE @]]
    /\ uuid' = uuid + 1
    /\ UNCHANGED <<env, audioTable, frTable, audio_files, bucket, served>>

\* the insert of the row with NULL content, when no record is actionable
PersistPlaceholder(s) ==
    /\ h[s].pc = "placeholder"
    /\ \E fault \in BOOLEAN :
        LET me == h[s]
            row == PlaceholderRow(randomUUID(uuid + 1), me.fileId, me.summary)
        IN IF ~fault /\ FeatureInsertAccepted(row)
           THEN /\ feature_requests' = Append(feature_requests, row)
                /\ h' = [h EXCEPT ![s] = [@ EXCEPT !.pc = "respond", !.calls = Bump(@, "db"),
                                                  !.inserts = Append(@, 0)]]
           ELSE /\ UNCHANGED feature_requests
                /\ h' = [h EXCEPT ![s] = [@ EXCEPT !.pc = "respond", !.calls = Bump(@, "db"),
                                                  !.inserts = Append(@, 0),
                                                  !.storeFaults = IF fault THEN @ + 1 ELSE @]]
    /\ uuid' = uuid + 1
    /\ UNCHANGED <<env, audioTable, frTable, audio_files, bucket, served>>

\* an audioInfo that reports the key whether or not the put completed
AudioInfoAlwaysKey(me) ==
    [defined |-> TRUE, fileId |-> me.fileId,
     r2Key |-> r2KeyOf(me.fileId),
     fileType |-> me.form.file.type, fileSize |-> me.form.file.size]

\* the audioInfo object of lines 98-108
AudioInfo(me) ==
    [defined |-> TRUE, fileId |-> me.fileId,
     r2Key |-> IF me.r2Stored THEN r2KeyOf(me.fileId) ELSE Absent,
     fileType |-> me.form.file.type, fileSize |-> me.form.file.size]

\* the response built from the filtered records
RespondUploadActionableOnly(s) ==
    /\ h[s].pc = "respond"
    /\ h[s].kind = "upload"
    /\ h' = [h EXCEPT ![s] = [@ EXCEPT !.pc = "done",
                !.response = [NoResponse EXCEPT !.status = 200, !.success = TRUE,
                                !.audioInfo = AudioInfo(h[s]),
                                !.aiFeatures = [h[s].aiFeatures EXCEPT
                                    !.featureRequests.requests = filter(@)],
                                !.message = "Audio processed successfully"]]]
    /\ UNCHANGED <<env, store, uuid, served>>

\* return c.json({ success: true, audioInfo, aiFeatures, message })
RespondUpload(s) ==
    /\ h[s].pc = "respond"
    /\ h[s].kind = "upload"
    /\ h' = [h EXCEPT ![s] = [@ EXCEPT !.pc = "done",
                !.response = [NoResponse EXCEPT !.status = 200, !.success = TRUE,
                                !.audioInfo = AudioInfo(h[s]),
                                !.aiFeatures = h[s].aiFeatures,
                                !.message = "Audio processed successfully"]]]
    /\ UNCHANGED <<env, store, uuid, served>>

\* ------------------------------------------------------------------------
\* POST /extract-features
\* ------------------------------------------------------------------------

\* the request arrives; the body is read and the transcription is checked
ReceiveExtract(s) ==
    /\ Sequential(s)
    /\ \E body \in ExtractBodies :
        LET me == [Idle EXCEPT !.kind = "extract"] IN
        h' = [h EXCEPT ![s] =
                IF body.malformed
                THEN [me EXCEPT !.pc = "done",
                        !.response = ErrorResponse(500, "Failed to extract feature requests",
                                                   "Unexpected end of JSON input")]
                ELSE IF ~Truthy(body.transcription)
                THEN [me EXCEPT !.pc = "done", !.transcriptionText = body.transcription,
                        !.response = ErrorResponse(400, "No transcription provided", Absent)]
                ELSE [me EXCEPT !.pc = "textgen", !.transcriptionText = body.transcription,
                                !.extractCalls = 1]]
    /\ served' = served + 1
    /\ UNCHANGED <<env, store, uuid>>

\* a handler that creates the feature_requests table before it answers
RespondExtractEnsuresTable(s) ==
    /\ h[s].pc = "respond"
    /\ h[s].kind = "extract"
    /\ h' = [h EXCEPT ![s] = [@ EXCEPT !.pc = "done",
                !.response = [NoResponse EXCEPT !.status = 200, !.success = TRUE,
                                !.featureRequests = h[s].featureRequests,
                                !.message = "Feature requests extracted successfully"]]]
    /\ frTable' = (frTable \/ dbPresent)
    /\ UNCHANGED <<env, audioTable, audio_files, feature_requests, bucket, uuid, served>>

\* return c.json({ success: true, featureRequests, message })
RespondExtract(s) ==
    /\ h[s].pc = "respond"
    /\ h[s].kind = "extract"
    /\ h' = [h EXCEPT ![s] = [@ EXCEPT !.pc = "done",
                !.response = [NoResponse EXCEPT !.status = 200, !.success = TRUE,
                                !.featureRequests = h[s].featureRequests,
                                !.message = "Feature requests extracted successfully"]]]
    /\ UNCHANGED <<env, store, uuid, served>>

\* ------------------------------------------------------------------------
\* GET /audio/:id/feature-requests
\* ------------------------------------------------------------------------

\* the identifiers a client asks for: the one the first accepted upload was
\* given, those of the stored files, and one no upload was given
FetchIds == {randomUUID(1), "no-such-id"} \cup {a.id : a \in audio_files}

\* GET requests are served one after the other, in slot 1
SequentialFetch(s) ==
    /\ s = 1
    /\ \A t \in Slots : h[t].pc \in {"idle", "done"}

\* the select without its WHERE clause
SelectAllRows(audioId) == feature_requests

\* SELECT * FROM feature_requests WHERE audio_file_id = ?1
SelectByAudioFile(audioId) ==
    SelectSeq(feature_requests, LAMBDA row : row.audio_file_id = audioId)

\* the request arrives; without the D1 binding it is answered at once
ReceiveFetch(s) ==
    /\ SequentialFetch(s)
    /\ \E id \in FetchIds :
        LET me == [Idle EXCEPT !.kind = "fetch", !.audioId = id] IN
        h' = [h EXCEPT ![s] =
                IF dbPresent
                THEN [me EXCEPT !.pc = "fetch_ensure"]
                ELSE [me EXCEPT !.pc = "done",
                        !.response = ErrorResponse(500, "D1 binding not available", Absent)]]
    /\ UNCHANGED <<env, store, uuid, served>>

\* await ensureFeatureRequestsTable(db), in the fetch handler
FetchEnsureTable(s) ==
    /\ h[s].pc = "fetch_ensure"
    /\ \E fault \in BOOLEAN :
        IF fault
        THEN /\ h' = [h EXCEPT ![s] = [@ EXCEPT !.pc = "done", !.calls = Bump(@, "db"),
                        !.storeFaults = @ + 1,
                        !.response = ErrorResponse(500, "Failed to fetch feature requests",
                                                   "D1_ERROR")]]
             /\ UNCHANGED frTable
        ELSE /\ h' = [h EXCEPT ![s] = [@ EXCEPT !.pc = "fetch_select", !.calls = Bump(@, "db")]]
             /\ frTable' = TRUE
    /\ UNCHANGED <<env, audioTable, audio_files, feature_requests, bucket, uuid, served>>

\* the select, and return c.json({ success: true, featureRequests: results })
FetchSelect(s) ==
    /\ h[s].pc = "fetch_select"
    /\ \E fault \in BOOLEAN :
        h' = [h EXCEPT ![s] =
                IF fault \/ ~frTable
                THEN [@ EXCEPT !.pc = "done", !.calls = Bump(@, "db"),
                        !.storeFaults = IF fault THEN @ + 1 ELSE @,
                        !.response = ErrorResponse(500, "Failed to fetch feature requests",
                                                   "D1_ERROR")]
                ELSE [@ EXCEPT !.pc = "done", !.calls = Bump(@, "db"),
                        !.response = [NoResponse EXCEPT !.status = 200, !.success = TRUE,
                                        !.results = SelectByAudioFile(h[s].audioId)]]]
    /\ UNCHANGED <<env, store, uuid, served>>

\* ------------------------------------------------------------------------
\* Specification
\* ------------------------------------------------------------------------

Next ==
    \E s \in Slots :
        \/ ReceiveUpload(s)
        \/ R2Put(s)
        \/ R2Absent(s)
        \/ D1Absent(s)
        \/ D1CreateAudioFiles(s)
        \/ D1EnsureFeatureRequestsTable(s)
        \/ D1InsertAudioFile(s)
        \/ SttNoBinding(s)
        \/ SttRun(s)
        \/ MockSleep(s)
        \/ ExtractNoBinding(s)
        \/ TextGenRun(s)
        \/ FallbackSleep(s)
        \/ PersistSkip(s)
        \/ PersistEnsureTable(s)
        \/ PersistInsert(s)
        \/ PersistPlaceholder(s)
        \/ RespondUpload(s)
        \/ ReceiveExtract(s)
        \/ RespondExtract(s)
        \/ ReceiveFetch(s)
        \/ FetchEnsureTable(s)
        \/ FetchSelect(s)

Spec == Init /\ [][Next]_vars

\* ------------------------------------------------------------------------
\* Two uploads in flight: every slot serves one upload, and the steps of the
\* two handlers interleave at their awaits
\* ------------------------------------------------------------------------

\* the forms of the concurrent uploads: those that pass validation
ConcurrentForms == {form \in UploadForms : ValidationStatus(form) = 0}

\* what the models answer to the concurrent uploads: one actionable record,
\* six records of which two are actionable, no record
ConcurrentTextGenResults ==
    {[isNull |-> FALSE, response |-> t, text |-> <<>>] : t \in {ObjOne, ObjMixed, ObjNoRequests}}

\* the error a failing inference call of a concurrent upload throws
ConcurrentError == [isError |-> TRUE, message |-> "AI request failed"]

\* an upload arrives in a slot that has served none; a second one may arrive
\* while the first is at any of its awaits
ReceiveUploadConcurrent(s) ==
    /\ h[s].pc = "idle"
    /\ \E form \in ConcurrentForms :
        h' = [h EXCEPT ![s] = [Idle EXCEPT !.kind = "upload", !.form = form, !.pc = "r2",
                                          !.fileId = randomUUID(uuid + 1)]]
    /\ uuid' = uuid + 1
    /\ served' = served + 1
    /\ UNCHANGED <<env, store>>

\* the speech-to-text call of a concurrent upload
SttRunConcurrent(s) ==
    /\ SttRun(s)
    /\ h'[s].err \in {NoError, ConcurrentError}
    /\ h'[s].transcriptionText # ""

\* the text-generation call of a concurrent upload
TextGenRunConcurrent(s) ==
    /\ TextGenRun(s)
    /\ h'[s].err \in {NoError, ConcurrentError}
    /\ h'[s].tgOutcome = "returned" => h'[s].tgResult \in ConcurrentTextGenResults

\* the stores of the concurrent uploads fail no statement and no put: what
\* is left to vary is the order of the steps
StoresWork(s) ==
    /\ h'[s].storeFaults = h[s].storeFaults
    /\ h'[s].calls.r2 > h[s].calls.r2 => h'[s].r2Stored

\* the store steps of a concurrent upload
R2PutConcurrent(s) == R2Put(s) /\ StoresWork(s)

D1CreateAudioFilesConcurrent(s) == D1CreateAudioFiles(s) /\ StoresWork(s)

D1EnsureFeatureRequestsTableConcurrent(s) == D1EnsureFeatureRequestsTable(s) /\ StoresWork(s)

D1InsertAudioFileConcurrent(s) == D1InsertAudioFile(s) /\ StoresWork(s)

PersistEnsureTableConcurrent(s) == PersistEnsureTable(s) /\ StoresWork(s)

PersistInsertConcurrent(s) == PersistInsert(s) /\ StoresWork(s)

PersistPlaceholderConcurrent(s) == PersistPlaceholder(s) /\ StoresWork(s)

NextConcurrent ==
    \E s \in Slots :
        \/ ReceiveUploadConcurrent(s)
        \/ R2PutConcurrent(s)
        \/ R2Absent(s)
        \/ D1Absent(s)
        \/ D1CreateAudioFilesConcurrent(s)
        \/ D1EnsureFeatureRequestsTableConcurrent(s)
        \/ D1InsertAudioFileConcurrent(s)
        \/ SttNoBinding(s)
        \/ SttRunConcurrent(s)
        \/ MockSleep(s)
        \/ TextGenRunConcurrent(s)
        \/ FallbackSleep(s)
        \/ PersistSkip(s)
        \/ PersistEnsureTableConcurrent(s)
        \/ PersistInsertConcurrent(s)
        \/ PersistPlaceholderConcurrent(s)
        \/ RespondUpload(s)

SpecConcurrent == Init /\ [][NextConcurrent]_vars

\* ------------------------------------------------------------------------
\* Properties
\* ------------------------------------------------------------------------

\* the rows of feature_requests for one audio file, in insertion order
RowsOf(fileId) == SelectSeq(feature_requests, LAMBDA row : row.audio_file_id = fileId)

\* the upload handler of slot s has answered with the success envelope
UploadSucceeded(s) ==
    /\ h[s].kind = "upload"
    /\ h[s].pc = "done"
    /\ h[s].response.status = 200

\* the relational store is there and failed no statement of this request
\* on its own account
StoreAccepts(s) ==
    /\ dbPresent
    /\ h[s].storeFaults = 0

\* actionable, as the data model words it: the title is present, non-empty,
\* and its lower-case form contains neither "parse error" nor "fallback"
Actionable(r) ==
    /\ r.title \notin {Absent, Null, ""}
    /\ ~includes(toLowerCase(Chars[r.title]), Chars["parse error"])
    /\ ~includes(toLowerCase(Chars[r.title]), Chars["fallback"])

ActionableOf(requests) == SelectSeq(requests, Actionable)

\* the file of the form passes the three checks of the upload handler
FormPasses(form) ==
    /\ ~form.malformed
    /\ form.hasAudio
    /\ startsWith(Chars[form.file.type], Chars["audio/"])
    /\ form.file.size <= 25 * 1024 * 1024

\* C1: after an accepted upload whose extraction result has a requests
\* sequence with no actionable record, with the relational store available,
\* feature_requests holds exactly one row for the file, its title,
\* description, priority, category, confidence and potential_recommendation
\* NULL and its summary the summary of the extraction result.
C1_PlaceholderRowWritten ==
    \A s \in Slots :
        LET fr == h[s].aiFeatures.featureRequests
            rows == RowsOf(h[s].fileId)
        IN (/\ UploadSucceeded(s)
            /\ StoreAccepts(s)
            /\ fr.reqKind = "array"
            /\ ActionableOf(fr.requests) = <<>>)
           => /\ Len(rows) = 1
              /\ rows[1].title = Null
              /\ rows[1].description = Null
              /\ rows[1].priority = Null
              /\ rows[1].category = Null
              /\ rows[1].confidence = Null
              /\ rows[1].potential_recommendation = Null
              /\ rows[1].summary = (IF fr.summary = Absent THEN Null ELSE fr.summary)

\* C2 (as stated): processAudioWithAI invokes extractFeatureRequests on every
\* call, also when the speech-to-text call fails or the AI handle is absent,
\* and the featureRequests it returns is the output of that call.
C2_ExtractionAlwaysInvoked ==
    \A s \in Slots :
        (h[s].kind = "upload" /\ h[s].aiFeatures.defined)
        => /\ h[s].extractCalls = 1
           /\ h[s].aiFeatures.featureRequests = h[s].extracted

\* C2 (amended): processAudioWithAI invokes extractFeatureRequests exactly
\* when its speech-to-text call returned, once, on the text it obtained
\* (possibly empty), and then the featureRequests it returns is the output
\* of that call; when the AI handle is absent or the speech-to-text call
\* throws, extractFeatureRequests is not invoked and featureRequests is the
\* hardcoded value holding the one record mock-1.
C2_ExtractionInvokedWhenTranscribed ==
    \A s \in Slots :
        (h[s].kind = "upload" /\ h[s].aiFeatures.defined)
        => IF h[s].sttOutcome = "returned"
           THEN /\ h[s].extractCalls = 1
                /\ h[s].aiFeatures.featureRequests = h[s].extracted
                /\ h[s].path \in {"decoded", "parse-error", "fallback"}
                /\ h[s].path # "fallback"
                    => h[s].extracted.originalTranscription = h[s].aiFeatures.transcription
           ELSE /\ h[s].extractCalls = 0
                /\ h[s].calls.tg = 0
                /\ h[s].extracted = NoExtraction
                /\ h[s].aiFeatures.featureRequests.requests = <<MockRecord>>
                /\ h[s].aiFeatures.transcription = MockTranscription

\* an upload whose transcription came back empty and was still extracted from
C2_Witness ==
    \E s \in Slots :
        /\ UploadSucceeded(s)
        /\ h[s].sttOutcome = "returned"
        /\ h[s].aiFeatures.transcription = ""
        /\ h[s].extractCalls = 1
        /\ h[s].path = "decoded"

\* C3: every value returned by extractFeatureRequests, on the decoded, the
\* parse-error and the invocation-failure path, has a requests field that
\* is a sequence, and so has the featureRequests of every upload response.
C3_RequestsAlwaysSequence ==
    \A s \in Slots :
        /\ h[s].path \in {"decoded", "parse-error", "fallback"}
            => h[s].extracted.reqKind = "array"
        /\ UploadSucceeded(s)
            => h[s].response.aiFeatures.featureRequests.reqKind = "array"

TextOf(s) == ResponseText(h[s].tgResult)

\* the requests of the extraction result keep length, title, priority and
\* category of the array of the decoded object obj
SameRequests(result, obj) ==
    /\ result.reqKind = "array"
    /\ Len(result.requests) = Len(obj.requests)
    /\ \A n \in 1..Len(obj.requests) :
        /\ result.requests[n].title = obj.requests[n].title
        /\ result.requests[n].priority = obj.requests[n].priority
        /\ result.requests[n].category = obj.requests[n].category

\* the valid JSON objects with a requests array that text contains, as
\* <<first, last>> positions
ObjectsIn(text) ==
    {ij \in (1..Len(text)) \X (1..Len(text)) :
        /\ ij[1] < ij[2]
        /\ JSONparse(SubSeq(text, ij[1], ij[2])).ok
        /\ JSONparse(SubSeq(text, ij[1], ij[2])).val.reqKind = "array"}

\* C5 (as stated): for every response text that contains a valid JSON object
\* with a requests array, whatever surrounds it, the result's requests has
\* the length of that array and the title, priority, category of its items.
C5_EmbeddedJsonPreserved ==
    \A s \in Slots :
        (h[s].tgOutcome = "returned" /\ ~h[s].tgResult.isNull)
        => \A ij \in ObjectsIn(TextOf(s)) :
                SameRequests(h[s].extracted, JSONparse(SubSeq(TextOf(s), ij[1], ij[2])).val)

\* C5 (amended): the same, for every response text in which no "{" comes
\* before the object and no "}" comes after it.
C5_EmbeddedJsonPreservedNoOuterBrace ==
    \A s \in Slots :
        (h[s].tgOutcome = "returned" /\ ~h[s].tgResult.isNull)
        => \A ij \in ObjectsIn(TextOf(s)) :
                (/\ \A n \in 1..(ij[1] - 1) : TextOf(s)[n].k # "{"
                 /\ \A n \in (ij[2] + 1)..Len(TextOf(s)) : TextOf(s)[n].k # "}")
                => SameRequests(h[s].extracted, JSONparse(SubSeq(TextOf(s), ij[1], ij[2])).val)

\* a response with free text on both sides of an object of one request
C5_Witness ==
    \E s \in Slots :
        /\ h[s].tgOutcome = "returned"
        /\ TextOf(s) = <<W>> \o ObjOne \o <<W>>
        /\ Len(h[s].extracted.requests) = 1
        /\ h[s].extracted.requests[1].title = "Add dark mode"

\* the text has no "{" with a "}" after it
NoBraceSpan(text) ==
    ~\E i, j \in 1..Len(text) : i < j /\ text[i].k = "{" /\ text[j].k = "}"

\* the span from the first "{" to the last "}" of a text that has one
WidestSpan(text) == SubSeq(text, FirstLB(text), LastRB(text))

\* C6: when the text-generation call returns and its response text has no
\* brace-delimited span, or the span does not decode (a response with
\* neither response nor text included), extractFeatureRequests returns the
\* one record parse-error-1 with its fixed title, priority low, category
\* improvement, confidence 0.1, and the summary "Error in processing AI
\* response", and the handler goes on.
C6_ParseErrorRecord ==
    \A s \in Slots :
        (/\ h[s].tgOutcome = "returned"
         /\ \/ h[s].tgResult.isNull
            \/ NoBraceSpan(TextOf(s))
            \/ ~JSONparse(WidestSpan(TextOf(s))).ok)
        => /\ h[s].extracted.reqKind = "array"
           /\ Len(h[s].extracted.requests) = 1
           /\ h[s].extracted.requests[1].id = "parse-error-1"
           /\ h[s].extracted.requests[1].title = "Unable to parse AI response"
           /\ h[s].extracted.requests[1].priority = "low"
           /\ h[s].extracted.requests[1].category = "improvement"
           /\ h[s].extracted.requests[1].confidence = "0.1"
           /\ h[s].extracted.summary = "Error in processing AI response"
           /\ h[s].pc \in {"persist", "insert", "placeholder", "respond", "done"}
           /\ h[s].pc = "done" => h[s].response.status = 200

\* a response object with neither response nor text, answered with success
C6_Witness ==
    \E s \in Slots :
        /\ h[s].tgOutcome = "returned"
        /\ ~h[s].tgResult.isNull
        /\ h[s].tgResult.response = <<>>
        /\ h[s].tgResult.text = <<>>
        /\ h[s].extracted.requests[1].id = "parse-error-1"
        /\ h[s].pc = "done"

\* the text-generation call of slot s failed and extractFeatureRequests returned
InvocationFailed(s) ==
    /\ h[s].tgOutcome \in {"nobinding", "threw"}
    /\ h[s].path = "fallback"

\* C7 (as stated): when the AI handle is absent or ai.run throws any error,
\* extractFeatureRequests returns the one record fallback-1 with
\* confidence 0.3, the summary "Feature extraction failed - using fallback
\* response", and a non-empty error detail.
C7_FallbackWithNonEmptyDetail ==
    \A s \in Slots :
        InvocationFailed(s)
        => /\ Len(h[s].extracted.requests) = 1
           /\ h[s].extracted.requests[1].id = "fallback-1"
           /\ h[s].extracted.requests[1].confidence = "0.3"
           /\ h[s].extracted.summary = "Feature extraction failed - using fallback response"
           /\ h[s].extracted.error \notin {Absent, Null, ""}

\* C7 (amended): the same record and summary, and an error detail that is
\* the message of the thrown Error, hence empty when that message is empty,
\* and "Unknown error" when the thrown value is no Error; it is non-empty
\* when the handle is absent.
C7_FallbackWithErrorMessage ==
    \A s \in Slots :
        InvocationFailed(s)
        => /\ h[s].extracted.reqKind = "array"
           /\ Len(h[s].extracted.requests) = 1
           /\ h[s].extracted.requests[1].id = "fallback-1"
           /\ h[s].extracted.requests[1].confidence = "0.3"
           /\ h[s].extracted.summary = "Feature extraction failed - using fallback response"
           /\ h[s].extracted.error \notin {Absent, Null}
           /\ h[s].extracted.error =
                (IF h[s].err.isError THEN h[s].err.message ELSE "Unknown error")
           /\ h[s].tgOutcome = "nobinding" => h[s].extracted.error = "AI binding not available"
           /\ h[s].pc \in {"persist", "insert", "placeholder", "respond", "done"}

\* a text-generation call that threw an Error with a message
C7_Witness ==
    \E s \in Slots :
        /\ InvocationFailed(s)
        /\ h[s].tgOutcome = "threw"
        /\ h[s].extracted.error = "AI request failed"
        /\ h[s].pc = "done"

\* C8: in every state, no row of feature_requests with a non-null title was
\* written from a record whose title is absent, empty, or in lower case
\* contains "parse error" or "fallback".
C8_NamedRowsAreActionable ==
    \A i \in 1..Len(feature_requests) :
        feature_requests[i].title # Null
        => /\ feature_requests[i].srcTitle \notin {Absent, Null, ""}
           /\ feature_requests[i].title = feature_requests[i].srcTitle
           /\ ~includes(toLowerCase(Chars[feature_requests[i].srcTitle]), Chars["parse error"])
           /\ ~includes(toLowerCase(Chars[feature_requests[i].srcTitle]), Chars["fallback"])

\* the rows of an upload whose six records held four that are not actionable
C8_Witness ==
    \E s \in Slots :
        /\ h[s].kind = "upload"
        /\ h[s].pc = "done"
        /\ Len(h[s].aiFeatures.featureRequests.requests) = 6
        /\ Len(ActionableOf(h[s].aiFeatures.featureRequests.requests)) = 2
        /\ Len(RowsOf(h[s].fileId)) = 2

\* C9: an upload with no audio field, with a type that does not start with
\* "audio/", or with more than 25*1024*1024 bytes is answered with 400, and
\* during a request answered with 400 no call to the object store, the
\* relational store, the speech-to-text or the text-generation backend is made.
C9_RejectedUploadCallsNothing ==
    \A s \in Slots :
        h[s].kind = "upload"
        => /\ (~h[s].form.malformed /\ ~FormPasses(h[s].form))
                => /\ h[s].pc = "done"
                   /\ h[s].response.status = 400
                   /\ h[s].response.error # Absent
           /\ h[s].response.status = 400
                => /\ h[s].calls = NoCalls
                   /\ h[s].extractCalls = 0
                   /\ h[s].fileId = Absent

\* an upload of 25*1024*1024 + 1 audio bytes answered with 400
C9_Witness ==
    \E s \in Slots :
        /\ h[s].kind = "upload"
        /\ h[s].response.status = 400
        /\ h[s].form.file.type = "audio/mpeg"
        /\ h[s].form.file.size = maxSize + 1
        /\ h[s].pc = "done"

\* C10: an upload that passes validation is answered with the success
\* envelope (status 200, success true, no error at the top level) whatever
\* the speech-to-text call, the text-generation call or the model output
\* did; a failed call shows only as the error field inside aiFeatures.
C10_AiFailureStillSucceeds ==
    \A s \in Slots :
        (h[s].kind = "upload" /\ h[s].pc = "done" /\ FormPasses(h[s].form))
        => /\ h[s].response.status = 200
           /\ h[s].response.success
           /\ h[s].response.error = Absent
           /\ h[s].response.details = Absent
           /\ h[s].response.aiFeatures.defined
           /\ h[s].sttOutcome \in {"nobinding", "threw"}
                => /\ h[s].response.aiFeatures.error # Absent
                   /\ h[s].response.aiFeatures.featureRequests.error # Absent
           /\ h[s].tgOutcome = "threw"
                => /\ h[s].response.aiFeatures.featureRequests.error # Absent
                   /\ h[s].response.aiFeatures.error = Absent

\* an upload answered with success although the text-generation call threw
C10_Witness ==
    \E s \in Slots :
        /\ UploadSucceeded(s)
        /\ h[s].sttOutcome = "returned"
        /\ h[s].tgOutcome = "threw"
        /\ h[s].response.success
        /\ h[s].response.aiFeatures.featureRequests.requests[1].id = "fallback-1"

\* C11: an upload that passes validation runs the AI stages and is answered
\* with success true and the aiFeatures the AI stage returned, whatever the
\* object store and the relational store did: binding absent, put failed,
\* table creation, metadata insert or feature request insert failed.
C11_StorageFailureStillSucceeds ==
    \A s \in Slots :
        (h[s].kind = "upload" /\ h[s].pc = "done" /\ FormPasses(h[s].form))
        => /\ h[s].response.status = 200
           /\ h[s].response.success
           /\ h[s].response.error = Absent
           /\ h[s].sttOutcome # "none"
           /\ h[s].sttOutcome = "returned" => h[s].extractCalls = 1
           /\ h[s].response.aiFeatures.defined
           /\ h[s].response.aiFeatures = h[s].aiFeatures
           /\ h[s].response.aiFeatures.featureRequests =
                (IF h[s].sttOutcome = "returned" THEN h[s].extracted
                 ELSE MockAiFeatures(h[s].err).featureRequests)

\* an upload answered with success after the put threw and D1 failed a statement
C11_Witness ==
    \E s \in Slots :
        /\ UploadSucceeded(s)
        /\ r2Present
        /\ ~h[s].r2Stored
        /\ h[s].storeFaults >= 1
        /\ h[s].path = "decoded"
        /\ h[s].response.aiFeatures.featureRequests.reqKind = "array"

\* the fetch handler of slot s has answered
FetchAnswered(s) ==
    /\ h[s].kind = "fetch"
    /\ h[s].pc = "done"

\* C12 (as stated): fetching the feature requests of an identifier for which
\* nothing was persisted answers success true and an empty array, not an
\* error, in every state of the store, the state where storage was
\* unavailable at upload time included.
C12_FetchOfNothingIsEmpty ==
    \A s \in Slots :
        (FetchAnswered(s) /\ RowsOf(h[s].audioId) = <<>>)
        => /\ h[s].response.status = 200
           /\ h[s].response.success
           /\ h[s].response.results = <<>>

\* C12 (amended): the same answer whenever the relational store is bound and
\* fails neither statement of the fetch; with no D1 binding, or when the
\* table creation or the select fails, the fetch is answered with 500.
C12_FetchOfNothingIsEmptyWhenStoreWorks ==
    \A s \in Slots :
        (FetchAnswered(s) /\ RowsOf(h[s].audioId) = <<>>)
        => IF dbPresent /\ h[s].storeFaults = 0
           THEN /\ h[s].response.status = 200
                /\ h[s].response.success
                /\ h[s].response.error = Absent
                /\ h[s].response.results = <<>>
           ELSE /\ h[s].response.status = 500
                /\ ~h[s].response.success
                /\ h[s].response.error # Absent

\* a fetch for the identifier of an accepted upload that left no row, while
\* another file has rows
C12_Witness ==
    \E s \in Slots :
        /\ FetchAnswered(s)
        /\ h[s].response.status = 200
        /\ h[s].response.results = <<>>
        /\ h[s].audioId = "no-such-id"
        /\ Len(feature_requests) > 0

\* C13: an empty transcription reaches extractFeatureRequests through both
\* entry points: chained from the transcription stage, and through the
\* extract-from-text operation, where it is answered with the success
\* envelope and not with an input error.
C13_EmptyTranscriptionAccepted ==
    \A s \in Slots :
        /\ (h[s].kind = "upload" /\ h[s].sttOutcome = "returned" /\ h[s].transcriptionText = "")
            => h[s].extractCalls = 1
        /\ (h[s].kind = "extract" /\ h[s].pc = "done" /\ h[s].transcriptionText = "")
            => /\ h[s].extractCalls = 1
               /\ h[s].response.status = 200
               /\ h[s].response.success

\* C14: the persistence filter does not change what the caller gets: the
\* requests of aiFeatures.featureRequests in the upload response are the
\* records the AI stage produced, all of them, in the same order, the ones
\* that were not persisted included.
C14_ResponseKeepsAllRecords ==
    \A s \in Slots :
        /\ UploadSucceeded(s)
            => /\ h[s].response.aiFeatures.featureRequests.requests =
                    (IF h[s].sttOutcome = "returned" THEN h[s].extracted.requests
                     ELSE <<MockRecord>>)
               /\ h[s].response.aiFeatures.featureRequests.reqKind =
                    (IF h[s].sttOutcome = "returned" THEN h[s].extracted.reqKind ELSE "array")
        /\ (h[s].kind = "upload" /\ h[s].pc \in {"insert", "placeholder", "respond"})
            => h[s].aiFeatures.featureRequests.requests =
                    (IF h[s].sttOutcome = "returned" THEN h[s].extracted.requests
                     ELSE <<MockRecord>>)

\* a response that carries six records of which two were persisted
C14_Witness ==
    \E s \in Slots :
        /\ UploadSucceeded(s)
        /\ h[s].persistAttempted
        /\ Len(h[s].response.aiFeatures.featureRequests.requests) = 6
        /\ h[s].response.aiFeatures.featureRequests.requests[1].title = ""
        /\ Len(h[s].actionableRequests) = 2

\* C15: every response of the upload and of the extract-from-text handler is
\* either the success envelope (success true, no error at the top level)
\* or the failure envelope (an error string, no success); an exception that
\* escapes the handler body gives the failure envelope with error and
\* details and status 500; no response carries both success and error.
C15_TwoEnvelopes ==
    \A s \in Slots :
        h[s].kind \in {"upload", "extract"}
        => /\ h[s].pc # "done" => h[s].response = NoResponse
           /\ h[s].pc = "done"
                => /\ \/ /\ h[s].response.status = 200
                         /\ h[s].response.success
                         /\ h[s].response.error = Absent
                         /\ h[s].response.details = Absent
                      \/ /\ h[s].response.status \in {400, 500}
                         /\ ~h[s].response.success
                         /\ h[s].response.error \notin {Absent, Null, ""}
                         /\ ~h[s].response.aiFeatures.defined
                         /\ h[s].response.featureRequests = NoExtraction
                   /\ h[s].response.status = 500
                        => h[s].response.details \notin {Absent, Null}
                   /\ (h[s].kind = "upload" /\ h[s].form.malformed)
                        => h[s].response.status = 500

\* an upload whose body was no form data, answered from the catch of the handler
C15_Witness ==
    \E s \in Slots :
        /\ h[s].kind = "upload"
        /\ h[s].pc = "done"
        /\ h[s].form.malformed
        /\ h[s].response.status = 500
        /\ h[s].response.details # Absent
        /\ ~h[s].response.success

\* the pc values of an upload after its D1 block
AfterD1Block == {"stt", "mock_sleep", "textgen", "fallback_sleep", "persist",
                 "insert", "placeholder", "respond", "done"}

\* no handler is between its request and its response
AllAnswered == \A t \in Slots : h[t].pc \in {"idle", "done"}

\* the parts of the ordering that hold as stated: text generation only
\* after speech-to-text returned text, and no response before the handler
\* has left its last persistence step
TextGenAfterSttAndResponseLast(s) ==
    /\ (h[s].calls.tg > 0 \/ h[s].pc \in {"textgen", "fallback_sleep"} \/ h[s].tgOutcome # "none")
        => /\ h[s].sttOutcome = "returned"
           /\ h[s].calls.stt = 1
           /\ h[s].transcriptionText # Absent
    /\ h[s].response # NoResponse => h[s].pc = "done"
    /\ h[s].pc \in {"persist", "insert", "placeholder"} => h[s].response = NoResponse

\* C16 (as stated): within one upload the text-generation call never starts
\* before the speech-to-text call has returned text, no feature_requests
\* insert starts before the extraction stage has returned its records, and
\* the response is sent only after every persistence write completed or failed.
C16_StrictOrder ==
    \A s \in Slots :
        h[s].kind = "upload"
        => /\ TextGenAfterSttAndResponseLast(s)
           /\ (h[s].pc \in {"insert", "placeholder"} \/ h[s].inserts # <<>>)
                => /\ h[s].extractCalls = 1
                   /\ h[s].extracted # NoExtraction

\* C16 (amended): the same order, with the feature_requests inserts never
\* starting before processAudioWithAI has returned its feature requests:
\* the records of the extraction stage when speech-to-text returned, the
\* hardcoded record mock-1 when it did not, in which case the inserts start
\* though the extraction stage never ran; and once every request is
\* answered no step writes to the store.
C16_StrictOrderAfterAiStage ==
    /\ [](\A s \in Slots :
            h[s].kind = "upload"
            => /\ TextGenAfterSttAndResponseLast(s)
               /\ (h[s].pc \in {"insert", "placeholder"} \/ h[s].inserts # <<>>)
                    => /\ h[s].aiFeatures.defined
                       /\ h[s].path # "none"
                       /\ IF h[s].sttOutcome = "returned"
                          THEN /\ h[s].extractCalls = 1
                               /\ h[s].extracted # NoExtraction
                               /\ h[s].aiFeatures.featureRequests = h[s].extracted
                          ELSE /\ h[s].extractCalls = 0
                               /\ h[s].extracted = NoExtraction
                               /\ h[s].aiFeatures.featureRequests.requests = <<MockRecord>>)
    /\ [][AllAnswered => store' = store]_vars

\* an upload whose rows were inserted after text generation returned two
\* actionable records
C16_Witness ==
    \E s \in Slots :
        /\ UploadSucceeded(s)
        /\ h[s].calls.stt = 1
        /\ h[s].calls.tg = 1
        /\ h[s].inserts = <<1, 2>>
        /\ Len(RowsOf(h[s].fileId)) = 2

\* C17: for every accepted upload with the relational store bound and
\* failing no statement, exactly one audio_files row has the file id of the
\* request once the D1 block is over, it is there before the first
\* inference call of the request, and no step of any request removes or
\* changes a row of audio_files.
C17_OneAudioFileRowBeforeInference ==
    /\ [](\A s \in Slots :
            (h[s].kind = "upload" /\ FormPasses(h[s].form) /\ dbPresent /\ h[s].storeFaults = 0)
            => /\ (h[s].pc \in AfterD1Block \/ h[s].calls.stt > 0 \/ h[s].calls.tg > 0)
                    => /\ Cardinality({a \in audio_files : a.id = h[s].fileId}) = 1
                       /\ AudioRow(h[s]) \in audio_files
                       /\ h[s].d1Inserted
               /\ h[s].pc \notin AfterD1Block
                    => /\ h[s].calls.stt = 0
                       /\ h[s].calls.tg = 0)
    /\ [][\A a \in audio_files : a \in audio_files']_vars

\* the speech-to-text call made, the row of the file being there
C17_Witness ==
    \E s \in Slots :
        /\ h[s].kind = "upload"
        /\ h[s].pc = "textgen"
        /\ h[s].storeFaults = 0
        /\ h[s].calls.stt = 1
        /\ \E a \in audio_files : a.id = h[s].fileId

\* C18: the extraction result carries an error detail if and only if it
\* was produced by the invocation-failure fallback: a result that comes
\* from decoded output, whatever the decoded object, or from the parse
\* error path, has no error.
C18_ErrorOnlyFromFallback ==
    \A s \in Slots :
        h[s].path \in {"decoded", "parse-error", "fallback"}
        => (h[s].extracted.error # Absent <=> h[s].path = "fallback")

\* C19: no retries. One upload invokes speech-to-text at most once and text
\* generation at most once, one extract-from-text request invokes text
\* generation at most once and speech-to-text never, and no feature_requests
\* insert is attempted twice, whatever fails.
C19_NoRetries ==
    \A s \in Slots :
        /\ h[s].calls.stt <= 1
        /\ h[s].calls.tg <= 1
        /\ h[s].extractCalls <= 1
        /\ h[s].kind = "extract" => h[s].calls.stt = 0 /\ h[s].inserts = <<>>
        /\ h[s].tgOutcome = "threw" => h[s].pc # "textgen"
        /\ \A m, n \in DOMAIN h[s].inserts : m # n => h[s].inserts[m] # h[s].inserts[n]
        /\ \A m \in DOMAIN h[s].inserts :
                IF h[s].actionableRequests = <<>>
                THEN h[s].inserts[m] = 0
                ELSE h[s].inserts[m] \in DOMAIN h[s].actionableRequests
        /\ Len(h[s].inserts) > Len(RowsOf(h[s].fileId))
                => h[s].pc \in {"respond", "done"} /\ Len(h[s].inserts) = Len(RowsOf(h[s].fileId)) + 1

\* an upload answered after text generation threw once and the one insert
\* of the row with NULL content failed
C19_Witness ==
    \E s \in Slots :
        /\ UploadSucceeded(s)
        /\ h[s].tgOutcome = "threw"
        /\ h[s].calls.stt = 1
        /\ h[s].calls.tg = 1
        /\ h[s].inserts = <<0>>
        /\ RowsOf(h[s].fileId) = <<>>

\* position i holds the first "{" of text and position j its last "}"
Outermost(text, i, j) ==
    /\ text[i].k = "{"
    /\ text[j].k = "}"
    /\ \A n \in 1..(i - 1) : text[n].k # "{"
    /\ \A n \in (j + 1)..Len(text) : text[n].k # "}"

\* C20: the slice handed to the decoder is exactly the span of the response
\* text from its first "{" to its last "}". Two sibling objects, or an
\* object followed by text with a "}", are one slice, and the result is the
\* parse error record when that slice is no valid JSON.
C20_SliceIsWidestSpan ==
    \A s \in Slots :
        (h[s].tgOutcome = "returned" /\ ~h[s].tgResult.isNull)
        => LET text == TextOf(s)
               decoded == JSONparse(h[s].slice)
               spans == {ij \in (1..Len(text)) \X (1..Len(text)) :
                            ij[1] < ij[2] /\ Outermost(text, ij[1], ij[2])}
           IN /\ \A ij \in spans :
                    /\ h[s].slice = SubSeq(text, ij[1], ij[2])
                    /\ h[s].path = "decoded" <=> decoded.ok
                    /\ ~decoded.ok
                        => /\ h[s].path = "parse-error"
                           /\ h[s].extracted.requests = <<ParseErrorRecord>>
                    /\ decoded.ok
                        => /\ h[s].extracted.reqKind = decoded.val.reqKind
                           /\ h[s].extracted.requests = decoded.val.requests
              /\ spans = {}
                    => /\ h[s].slice = <<>>
                       /\ h[s].path = "parse-error"

\* two sibling objects, each valid, handed to the decoder as one slice
C20_Witness ==
    \E s \in Slots :
        /\ h[s].tgOutcome = "returned"
        /\ TextOf(s) = ObjOne \o <<W>> \o ObjNoRequests
        /\ h[s].slice = TextOf(s)
        /\ JSONparse(ObjOne).ok
        /\ h[s].path = "parse-error"
        /\ h[s].extracted.requests[1].id = "parse-error-1"

\* C22: for every accepted upload handled with the relational store bound
\* and failing no statement, at least one feature_requests row has the file
\* id once the handler has answered, whatever the model returned.
C22_AtLeastOneRow ==
    \A s \in Slots :
        (UploadSucceeded(s) /\ StoreAccepts(s))
        => Len(RowsOf(h[s].fileId)) >= 1

\* C23: hardcoded substitute records are never stored as named rows: when
\* the speech-to-text call fails, the AI handle is absent or the
\* text-generation call fails, no feature_requests row of the file has a
\* title.
C23_NoSubstituteRecordStored ==
    \A s \in Slots :
        (/\ h[s].kind = "upload"
         /\ \/ h[s].sttOutcome \in {"threw", "nobinding"}
            \/ h[s].tgOutcome \in {"threw", "nobinding"})
        => \A n \in 1..Len(RowsOf(h[s].fileId)) : RowsOf(h[s].fileId)[n].title = Null

\* C24: referential integrity in every reachable state: the audio_file_id
\* of every feature_requests row is the id of a row of audio_files, and an
\* upload whose audio_files insert failed or was skipped leaves no
\* feature_requests row, though its inserts are attempted.
C24_ReferentialIntegrity ==
    /\ \A n \in 1..Len(feature_requests) :
            \E a \in audio_files : a.id = feature_requests[n].audio_file_id
    /\ \A s \in Slots :
            (h[s].kind = "upload" /\ ~h[s].d1Inserted) => RowsOf(h[s].fileId) = <<>>

\* an upload whose D1 block failed, whose feature request insert was
\* attempted later and left no row
C24_Witness ==
    \E s \in Slots :
        /\ UploadSucceeded(s)
        /\ dbPresent
        /\ frTable
        /\ ~h[s].d1Inserted
        /\ h[s].inserts = <<1>>
        /\ h[s].actionableRequests # <<>>
        /\ RowsOf(h[s].fileId) = <<>>

\* C25: the feature requests of one upload are stored all or nothing: when
\* an insert of the loop over the actionable records fails, no
\* feature_requests row of the upload remains; otherwise all are there.
C25_AllOrNothing ==
    \A s \in Slots :
        (UploadSucceeded(s) /\ h[s].actionableRequests # <<>>)
        => \/ RowsOf(h[s].fileId) = <<>>
           \/ Len(RowsOf(h[s].fileId)) = Len(h[s].actionableRequests)

\* the put of the request of slot s completed without error
PutCompleted(s) == r2KeyOf(h[s].fileId) \in bucket

\* C26: a storage key is reported only for bytes that were stored: the
\* r2_key of the audio_files row and the r2Key of audioInfo in the response
\* are there if and only if the put of the request completed; with no
\* bucket binding, or a put that threw, the first is NULL and the second absent.
C26_KeyOnlyForStoredBytes ==
    \A s \in Slots :
        (h[s].kind = "upload" /\ FormPasses(h[s].form))
        => /\ \A a \in audio_files :
                a.id = h[s].fileId
                => /\ a.r2_key # Null <=> PutCompleted(s)
                   /\ a.r2_key \in {Null, r2KeyOf(h[s].fileId)}
           /\ h[s].pc = "done"
                => /\ h[s].response.audioInfo.defined
                   /\ h[s].response.audioInfo.r2Key # Absent <=> PutCompleted(s)
                   /\ h[s].response.audioInfo.r2Key \in {Absent, r2KeyOf(h[s].fileId)}
           /\ (~r2Present \/ (h[s].calls.r2 = 1 /\ ~h[s].r2Stored)) => ~PutCompleted(s)

\* an upload answered after its put threw: the row has a NULL key and
\* audioInfo has none
C26_Witness ==
    \E s \in Slots :
        /\ UploadSucceeded(s)
        /\ r2Present
        /\ h[s].calls.r2 = 1
        /\ ~PutCompleted(s)
        /\ h[s].response.audioInfo.r2Key = Absent
        /\ \E a \in audio_files : a.id = h[s].fileId /\ a.r2_key = Null

\* the step is one of the extract-from-text handler of slot s
ExtractStep(s) ==
    /\ h'[s] # h[s]
    /\ h'[s].kind = "extract"

\* C27: the extract-from-text operation leaves durable storage unchanged:
\* no step of it, whatever its outcome, puts an object or creates a table,
\* or inserts or changes a row of audio_files or feature_requests.
C27_ExtractLeavesStoreUnchanged ==
    [][(\E s \in Slots : ExtractStep(s)) => store' = store]_vars

\* an extract-from-text request answered with the fallback record, the
\* store being bound and untouched
C27_Witness ==
    \E s \in Slots :
        /\ h[s].kind = "extract"
        /\ h[s].pc = "done"
        /\ h[s].response.status = 200
        /\ h[s].path = "fallback"
        /\ dbPresent
        /\ r2Present
        /\ ~frTable
        /\ ~audioTable
        /\ bucket = {}

\* the number of feature_requests rows the upload of slot s writes when it
\* runs alone against a working store: one per actionable record of its
\* extraction result (none for the row with NULL content, which the schema
\* rejects, and none without a requests array or a D1 binding)
RowsWhenAlone(s) ==
    LET fr == h[s].aiFeatures.featureRequests
    IN IF dbPresent /\ fr.reqKind = "array" THEN Len(ActionableOf(fr.requests)) ELSE 0

\* C21: for every interleaving of two concurrent uploads at their awaits,
\* the race to create the tables included, both are answered with the
\* success envelope, the feature_requests rows of each carry its own file
\* id and its own summary, and each writes as many rows as it writes alone.
C21_ConcurrentUploadsIndependent ==
    /\ \A s \in Slots :
            h[s].pc = "done"
            => /\ h[s].response.status = 200
               /\ h[s].response.success
               /\ h[s].response.audioInfo.fileId = h[s].fileId
               /\ h[s].response.aiFeatures = h[s].aiFeatures
               /\ Len(RowsOf(h[s].fileId)) = RowsWhenAlone(s)
               /\ dbPresent => \E a \in audio_files : a.id = h[s].fileId
    /\ \A s, t \in Slots : (s # t /\ h[s].fileId # Absent) => h[s].fileId # h[t].fileId
    /\ \A n \in 1..Len(feature_requests) :
            \E s \in Slots :
                /\ feature_requests[n].audio_file_id = h[s].fileId
                /\ h[s].aiFeatures.defined
                /\ feature_requests[n].summary = SummaryOrNull(h[s].aiFeatures.featureRequests)
                /\ \E m \in 1..Len(h[s].aiFeatures.featureRequests.requests) :
                        h[s].aiFeatures.featureRequests.requests[m].title = feature_requests[n].srcTitle
                /\ Len(RowsOf(h[s].fileId)) <= RowsWhenAlone(s)

\* two uploads answered whose inserts alternated: the rows of the one with
\* two actionable records enclose the row of the other
C21_Witness ==
    /\ \A s \in Slots : UploadSucceeded(s)
    /\ Len(feature_requests) = 3
    /\ feature_requests[1].summary = "two"
    /\ feature_requests[2].summary = "s"
    /\ feature_requests[3].summary = "two"
    /\ feature_requests[1].audio_file_id = feature_requests[3].audio_file_id
    /\ feature_requests[1].audio_file_id # feature_requests[2].audio_file_id

====
